---- MODULE Spec2Model ----
(***************************************************************************)
(* A model of l2l/logger.py: the Logger class that writes scalars, image   *)
(* batches and histograms to a tf.summary.FileWriter.                      *)
(*                                                                         *)
(* The writer (the sink) is a sequence of events, of which a prefix has    *)
(* been flushed.  Every Logger method is an operator from the writer and   *)
(* the call's arguments to the writer after the call and the exception the *)
(* call raised ("none" when it returned).  Numbers are integers; bin edges *)
(* are exact rationals <<numerator, denominator>>.  The library calls the  *)
(* Logger makes (io.StringIO, plt.imsave, np.histogram, np.min, the        *)
(* protocol buffer fields, the FileWriter) are modelled by what they do at *)
(* the line that calls them.                                               *)
(***************************************************************************)
EXTENDS Integers, Sequences, FiniteSets, TLC

VARIABLES writer, last

vars == <<writer, last>>

(* ------------------------------ bounds --------------------------------- *)

\* Calls are accepted until the sink holds MaxRecords events.
MaxRecords == 2
\* Histogram inputs of the specification SpecHist.
MaxHistLen == 3
MaxHistSample == 2
MaxHistBins == 3

Tags == {"a", "b"}
Steps == {0, 1}
ScalarValues == {0, 5, 2^24, 2^24 + 1, 2^24 + 3}
HistValues == {<< >>, <<1>>, <<0, 3>>}
HistBins == {2}
HistSamples == (0 - MaxHistSample)..MaxHistSample
HistInputs == UNION {[1..n -> HistSamples] : n \in 0..MaxHistLen}

\* numpy arrays as images: only the shape matters to the Logger.
Image(shape) == [shape |-> shape]
ImageBatches ==
  { << >>,
    <<Image(<<2, 3, 3>>)>>,
    <<Image(<<1, 1>>), Image(<<2, 3, 3>>)>>,
    <<Image(<<2, 3, 3>>), Image(<<4>>)>>,
    <<Image(<<4>>), Image(<<2, 3, 3>>)>> }

(* ------------------------------ helpers -------------------------------- *)

Abs(x) == IF x < 0 THEN 0 - x ELSE x

RECURSIVE SeqSum(_)
SeqSum(s) == IF s = << >> THEN 0 ELSE Head(s) + SeqSum(Tail(s))

RECURSIVE SeqMin(_)
SeqMin(s) ==
  IF Len(s) = 1 THEN s[1]
  ELSE LET m == SeqMin(Tail(s)) IN IF s[1] < m THEN s[1] ELSE m

RECURSIVE SeqMax(_)
SeqMax(s) ==
  IF Len(s) = 1 THEN s[1]
  ELSE LET m == SeqMax(Tail(s)) IN IF s[1] > m THEN s[1] ELSE m

Ok(v) == [raised |-> "none", value |-> v]
Raise(e) == [raised |-> e, value |-> << >>]

(* --------------------- the protocol buffer fields ----------------------- *)

\* The largest e with 2^e <= a, for a >= 1.
RECURSIVE Log2(_)
Log2(a) == IF a < 2 THEN 0 ELSE 1 + Log2(a \div 2)

\* The spacing of single-precision floats around the integer a.
Ulp32(a) == IF a < 2^24 THEN 1 ELSE 2^(Log2(a) - 23)

\* Summary.Value.simple_value is a single-precision field: the integer v is
\* stored as the nearest value with a 24-bit significand, ties to even.
ToFloat32(v) ==
  LET a == Abs(v)
      u == Ulp32(a)
      q == a \div u
      r == a % u
      n == IF 2 * r > u \/ (2 * r = u /\ q % 2 = 1) THEN (q + 1) * u ELSE q * u
  IN IF v < 0 THEN 0 - n ELSE n

\* tf.Summary.Value(tag=tag, simple_value=value)
ScalarValue(tag, value) ==
  [tag |-> tag, kind |-> "simple_value", simple_value |-> ToFloat32(value)]

\* '%s/%d' % (tag, nr)
ImageTag(tag, nr) == tag \o "/" \o ToString(nr)

(* ------------------------------ the sink -------------------------------- *)

\* tf.summary.FileWriter(log_dir, graph): no summary event yet.
FileWriter == [events |-> << >>, flushed |-> 0]

\* writer.add_summary(summary, step): one event at the end of the log.
FileWriter_add_summary(w, summary, step) ==
  [w EXCEPT !.events = Append(@, [summary |-> summary, step |-> step])]

\* writer.flush(): everything added so far becomes visible to a reader.
FileWriter_flush(w) == [w EXCEPT !.flushed = Len(w.events)]

Returned(w) == [writer |-> w, raised |-> "none"]
Raised(w, e) == [writer |-> w, raised |-> e]

(* ------------------------------ Logger ---------------------------------- *)

\* Logger.__init__
Logger_init == FileWriter

\* Logger.flush
flush_dup(w) ==
  Returned(FileWriter_flush(
    [w EXCEPT !.events = @ \o SubSeq(@, w.flushed + 1, Len(@))]))

flush(w) == Returned(FileWriter_flush(w))

\* Logger.add_summary
add_summary_prepend(w, summary, step) ==
  flush([w EXCEPT !.events = <<[summary |-> summary, step |-> step]>> \o @])

add_summary(w, summary, step) ==
  flush(FileWriter_add_summary(w, summary, step))

\* Logger.log_scalar
log_scalar_noflush(w, tag, value, step) ==
  Returned(FileWriter_add_summary(w, <<ScalarValue(tag, value)>>, step))

log_scalar_monotonic(w, tag, value, step) ==
  LET n == Len(w.events)
      s == IF n > 0 /\ w.events[n].step > step THEN w.events[n].step ELSE step
  IN flush(FileWriter_add_summary(w, <<ScalarValue(tag, value)>>, s))

log_scalar(w, tag, value, step) ==
  LET summary == <<ScalarValue(tag, value)>>
  IN flush(FileWriter_add_summary(w, summary, step))

\* s = StringIO(): a text buffer; write() takes text only.
StringIO_write(data) ==
  IF data.type = "str" THEN Ok(data) ELSE Raise("TypeError")

\* plt.imsave(s, img, format='png'): encodes img as PNG bytes and writes
\* them to s; an array without two leading dimensions is no image.
imsave(img) ==
  IF Len(img.shape) < 2 THEN Raise("ValueError")
  ELSE StringIO_write([type |-> "bytes", png |-> img.shape])

\* img.shape[i]
shape_at(img, i) ==
  IF i + 1 > Len(img.shape) THEN Raise("IndexError") ELSE Ok(img.shape[i + 1])

\* The body of the loop over enumerate(images) for image number nr.
image_value(tag, nr, img) ==
  LET s == imsave(img)
      h == shape_at(img, 0)
      wd == shape_at(img, 1)
  IN IF s.raised # "none" THEN Raise(s.raised)
     ELSE IF h.raised # "none" THEN Raise(h.raised)
     ELSE IF wd.raised # "none" THEN Raise(wd.raised)
     ELSE Ok([tag |-> ImageTag(tag, nr), kind |-> "image",
              encoded_image_string |-> s.value,
              height |-> h.value, width |-> wd.value])

\* The loop: im_summaries after the images from number nr on, or the first
\* exception an image raises (value then holds the entries built before it,
\* which the exception discards).
RECURSIVE im_summaries(_, _, _, _)
im_summaries(tag, images, nr, acc) ==
  IF nr + 1 > Len(images) THEN Ok(acc)
  ELSE LET v == image_value(tag, nr, images[nr + 1])
       IN IF v.raised # "none" THEN [raised |-> v.raised, value |-> acc]
          ELSE im_summaries(tag, images, nr + 1, Append(acc, v.value))

\* Logger.log_images
log_images_flushing(w, tag, images, step) ==
  LET r == im_summaries(tag, images, 0, << >>)
  IN IF r.raised # "none" THEN Raised(w, r.raised)
     ELSE flush(FileWriter_add_summary(w, r.value, step))

log_images_partial(w, tag, images, step) ==
  LET r == im_summaries(tag, images, 0, << >>)
  IN Raised(FileWriter_add_summary(w, r.value, step), r.raised)

log_images(w, tag, images, step) ==
  LET r == im_summaries(tag, images, 0, << >>)
  IN IF r.raised # "none" THEN Raised(w, r.raised)
     ELSE Returned(FileWriter_add_summary(w, r.value, step))

(* ---------------------------- histograms -------------------------------- *)

\* The range of np.histogram, doubled so that it stays integral: (0, 1) for
\* no sample, (min - 0.5, max + 0.5) when min = max, (min, max) otherwise.
range2(values) ==
  IF values = << >> THEN <<0, 2>>
  ELSE LET mn == SeqMin(values)
           mx == SeqMax(values)
       IN IF mn = mx THEN <<2 * mn - 1, 2 * mx + 1>> ELSE <<2 * mn, 2 * mx>>

\* np.linspace(first, last, bins + 1), each edge as <<numerator, denominator>>.
linspace2(r, bins) ==
  [i \in 1..(bins + 1) |-> <<r[1] * bins + (i - 1) * (r[2] - r[1]), 2 * bins>>]

\* The bin of sample x: bins are half-open but for the last, which is closed.
bin_index(x, r, bins) ==
  LET k == ((2 * x - r[1]) * bins) \div (r[2] - r[1])
  IN IF k = bins THEN bins - 1 ELSE k

bin_index_open(x, r, bins) == ((2 * x - r[1]) * bins) \div (r[2] - r[1])

\* np.histogram(values, bins=bins)
np_histogram_open(values, bins) ==
  IF bins < 1 THEN Raise("ValueError")
  ELSE LET r == range2(values)
       IN Ok([counts |-> [i \in 1..bins |->
                 Cardinality({k \in 1..Len(values) :
                                bin_index_open(values[k], r, bins) = i - 1})],
              bin_edges |-> linspace2(r, bins)])

np_histogram(values, bins) ==
  IF bins < 1 THEN Raise("ValueError")
  ELSE LET r == range2(values)
       IN Ok([counts |-> [i \in 1..bins |->
                 Cardinality({k \in 1..Len(values) :
                                bin_index(values[k], r, bins) = i - 1})],
              bin_edges |-> linspace2(r, bins)])

\* np.min(values), np.max(values): no minimum of an empty array.
np_min(values) == IF values = << >> THEN Raise("ValueError") ELSE Ok(SeqMin(values))
np_max(values) == IF values = << >> THEN Raise("ValueError") ELSE Ok(SeqMax(values))

\* The HistogramProto filled from the samples, the counts and the bin edges.
HistogramProto_first_last(values, counts, bin_edges) ==
  IF values = << >> THEN Raise("ValueError")
  ELSE Ok([min |-> values[1],
           max |-> values[Len(values)],
           num |-> Len(values),
           sum |-> SeqSum(values),
           sum_squares |-> SeqSum([k \in 1..Len(values) |-> values[k] * values[k]]),
           bucket_limit |-> Tail(bin_edges),
           bucket |-> counts])

HistogramProto_all_edges(values, counts, bin_edges) ==
  IF values = << >> THEN Raise("ValueError")
  ELSE Ok([min |-> SeqMin(values),
           max |-> SeqMax(values),
           num |-> Len(values),
           sum |-> SeqSum(values),
           sum_squares |-> SeqSum([k \in 1..Len(values) |-> values[k] * values[k]]),
           bucket_limit |-> bin_edges,
           bucket |-> counts])

HistogramProto(values, counts, bin_edges) ==
  LET mn == np_min(values)
      mx == np_max(values)
  IN IF mn.raised # "none" THEN Raise(mn.raised)
     ELSE IF mx.raised # "none" THEN Raise(mx.raised)
     ELSE Ok([min |-> mn.value,
              max |-> mx.value,
              num |-> Len(values),
              sum |-> SeqSum(values),
              sum_squares |-> SeqSum([k \in 1..Len(values) |-> values[k] * values[k]]),
              bucket_limit |-> Tail(bin_edges),
              bucket |-> counts])

\* Logger.log_histogram
log_histogram(w, tag, values, step, bins) ==
  LET h == np_histogram(values, bins)
      hist == HistogramProto(values, h.value.counts, h.value.bin_edges)
  IN IF h.raised # "none" THEN Raised(w, h.raised)
     ELSE IF hist.raised # "none" THEN Raised(w, hist.raised)
     ELSE LET summary == <<[tag |-> tag, kind |-> "histo", histo |-> hist.value]>>
          IN flush(FileWriter_add_summary(w, summary, step))

(* ------------------------------ actions --------------------------------- *)

\* A summary built by the caller, for add_summary.
Summaries == { << >>, <<[tag |-> "merged", kind |-> "simple_value", simple_value |-> 7]>> }

Call(op, args, r) ==
  [op |-> op, args |-> args, raised |-> r.raised, before |-> writer,
   again |-> (op = "flush" /\ last.op = "flush")]

Room == Len(writer.events) < MaxRecords

Init ==
  /\ writer = Logger_init
  /\ last = [op |-> "init", args |-> << >>, raised |-> "none",
             before |-> Logger_init, again |-> FALSE]

AddSummary(summary, step) ==
  LET r == add_summary(writer, summary, step)
  IN /\ Room
     /\ writer' = r.writer
     /\ last' = Call("add_summary", [summary |-> summary, step |-> step], r)

Flush ==
  LET r == flush(writer)
  IN /\ writer' = r.writer
     /\ last' = Call("flush", << >>, r)

LogScalar(tag, value, step) ==
  LET r == log_scalar(writer, tag, value, step)
  IN /\ Room
     /\ writer' = r.writer
     /\ last' = Call("log_scalar", [tag |-> tag, value |-> value, step |-> step], r)

LogImages(tag, images, step) ==
  LET r == log_images(writer, tag, images, step)
  IN /\ Room
     /\ writer' = r.writer
     /\ last' = Call("log_images", [tag |-> tag, images |-> images, step |-> step], r)

LogHistogram(tag, values, step, bins) ==
  LET r == log_histogram(writer, tag, values, step, bins)
  IN /\ Room
     /\ writer' = r.writer
     /\ last' = Call("log_histogram",
                     [tag |-> tag, values |-> values, step |-> step, bins |-> bins], r)

Next ==
  \/ \E summary \in Summaries, step \in Steps : AddSummary(summary, step)
  \/ Flush
  \/ \E tag \in Tags, value \in ScalarValues, step \in Steps :
       LogScalar(tag, value, step)
  \/ \E tag \in Tags, images \in ImageBatches, step \in Steps :
       LogImages(tag, images, step)
  \/ \E tag \in Tags, values \in HistValues, step \in Steps, bins \in HistBins :
       LogHistogram(tag, values, step, bins)

Spec == Init /\ [][Next]_vars

\* One log_histogram call on a fresh Logger, over all bounded sample sets.
HistNext ==
  \E values \in HistInputs, bins \in 0..MaxHistBins :
    /\ last.op = "init"
    /\ LogHistogram("h", values, 0, bins)

SpecHist == Init /\ [][HistNext]_vars

(* ------------------------------ claims ---------------------------------- *)

Events == writer.events
Before == last.before
LastEvent == Events[Len(Events)]
ReturnedFrom(op) == last.op = op /\ last.raised = "none"
\* The call appended exactly one event, at the end.
AppendedOne ==
  /\ Len(Events) = Len(Before.events) + 1
  /\ SubSeq(Events, 1, Len(Before.events)) = Before.events
AllFlushed == writer.flushed = Len(Events)
WellFormed(img) == Len(img.shape) >= 2

\* x is an integer that single precision represents exactly.
IsFloat32(x) == Abs(x) % Ulp32(Abs(x)) = 0
\* sv is a single-precision value nearest to v.
NearestFloat32(sv, v) ==
  /\ IsFloat32(sv)
  /\ \A f \in (v - 4)..(v + 4) : IsFloat32(f) => Abs(sv - v) <= Abs(f - v)

\* C1 as stated: after log_scalar(tag, value, step) the sink is the sink
\* before the call plus one event with that step and one value entry with
\* that tag and exactly that value, and every event is flushed.
C1_Original ==
  last.op = "log_scalar" =>
    /\ last.raised = "none"
    /\ Events = Append(Before.events,
                       [summary |-> <<[tag |-> last.args.tag,
                                       kind |-> "simple_value",
                                       simple_value |-> last.args.value]>>,
                        step |-> last.args.step])
    /\ AllFlushed

\* C1 amended: after log_scalar(tag, value, step) the sink is the sink before
\* the call plus one event with that step and one value entry with that tag
\* and the value rounded to the nearest single-precision float (the value
\* itself when single precision represents it), and every event is flushed.
C1_Amended ==
  last.op = "log_scalar" =>
    /\ last.raised = "none"
    /\ AppendedOne
    /\ LastEvent.step = last.args.step
    /\ Len(LastEvent.summary) = 1
    /\ LastEvent.summary[1].tag = last.args.tag
    /\ LastEvent.summary[1].kind = "simple_value"
    /\ NearestFloat32(LastEvent.summary[1].simple_value, last.args.value)
    /\ IsFloat32(last.args.value) =>
         LastEvent.summary[1].simple_value = last.args.value
    /\ AllFlushed

C1_Witness ==
  /\ ReturnedFrom("log_scalar")
  /\ last.args.value = 2^24 + 3
  /\ LastEvent.summary[1].simple_value = 2^24 + 4
  /\ Len(Events) = 2
  /\ AllFlushed

\* C2: after log_images(tag, images, step) on a batch of N well-formed images
\* the call has returned and appended exactly one event with that step and N
\* entries, the i-th tagged "tag/i" with the i-th image's height and width.
C2_Claim ==
  (last.op = "log_images"
     /\ \A i \in 1..Len(last.args.images) : WellFormed(last.args.images[i])) =>
    /\ last.raised = "none"
    /\ AppendedOne
    /\ LastEvent.step = last.args.step
    /\ Len(LastEvent.summary) = Len(last.args.images)
    /\ \A i \in 1..Len(last.args.images) :
         /\ LastEvent.summary[i].tag = last.args.tag \o "/" \o ToString(i - 1)
         /\ LastEvent.summary[i].height = last.args.images[i].shape[1]
         /\ LastEvent.summary[i].width = last.args.images[i].shape[2]

\* C3: every step leaves the sink's events as they were or adds one event at
\* the end; no event is removed, reordered or changed, and no flushed event
\* becomes unflushed.
C3_AppendOnly ==
  [][/\ \/ writer'.events = writer.events
        \/ /\ Len(writer'.events) = Len(writer.events) + 1
           /\ SubSeq(writer'.events, 1, Len(writer.events)) = writer.events
     /\ writer'.flushed >= writer.flushed]_vars

C3_Witness ==
  /\ ReturnedFrom("add_summary")
  /\ Len(Events) = 2
  /\ Events[1] # Events[2]
  /\ Len(Events[1].summary) = 1
  /\ Events[1].summary[1].kind = "histo"

HistoOf == LastEvent.summary[1].histo
HistogramLogged ==
  /\ last.op = "log_histogram"
  /\ last.args.values # << >>
  /\ last.args.bins >= 1

\* C4: for a non-empty sample set and bins >= 1, log_histogram returns and
\* the bucket counts of the event it wrote sum to the number of samples,
\* which is the histogram's num.
C4_CountsSum ==
  HistogramLogged =>
    /\ last.raised = "none"
    /\ AppendedOne
    /\ SeqSum(HistoOf.bucket) = Len(last.args.values)
    /\ HistoOf.num = SeqSum(HistoOf.bucket)

C4_Witness ==
  /\ ReturnedFrom("log_histogram")
  /\ last.args.values = <<2, 0 - 2, 0>>
  /\ last.args.bins = 3
  /\ HistoOf.bucket = <<1, 1, 1>>
  /\ HistoOf.num = 3

\* C5: a flush leaves the events as they were and everything flushed; a
\* flush right after a flush changes nothing at all, and flushing once more
\* would change nothing either.
C5_FlushIdempotent ==
  last.op = "flush" =>
    /\ last.raised = "none"
    /\ Events = Before.events
    /\ AllFlushed
    /\ last.again => writer = Before
    /\ flush(writer).writer = writer

C5_Witness ==
  /\ last.op = "flush"
  /\ last.again
  /\ Len(Events) = 2
  /\ Events[2].summary = << >>

\* C6: the min and max of the histogram written for a non-empty sample set
\* are samples, and no sample is below min or above max.
C6_MinMax ==
  HistogramLogged =>
    /\ last.raised = "none"
    /\ \E k \in 1..Len(last.args.values) : last.args.values[k] = HistoOf.min
    /\ \E k \in 1..Len(last.args.values) : last.args.values[k] = HistoOf.max
    /\ \A k \in 1..Len(last.args.values) :
         HistoOf.min <= last.args.values[k] /\ last.args.values[k] <= HistoOf.max

C6_Witness ==
  /\ ReturnedFrom("log_histogram")
  /\ last.args.values = <<0, 2, 0 - 1>>
  /\ HistoOf.min = 0 - 1
  /\ HistoOf.max = 2

\* The i-th upper edge e is lo2/2 + i * (hi2/2 - lo2/2) / bins.
EdgeAt(e, i, bins, lo2, hi2) == e[1] * 2 * bins = e[2] * (lo2 * bins + i * (hi2 - lo2))

\* The histogram has bins counts and bins upper edges, the upper edges of
\* bins equal-width buckets that span [lo2/2, hi2/2].
Spans(h, bins, lo2, hi2) ==
  /\ Len(h.bucket) = bins
  /\ Len(h.bucket_limit) = bins
  /\ \A i \in 1..bins : EdgeAt(h.bucket_limit[i], i, bins, lo2, hi2)

\* C7 as stated: for every non-empty sample set the histogram has bins
\* counts and the bins upper edges of equal-width buckets spanning
\* [min, max] of the samples, the last upper edge being max.
C7_Original ==
  HistogramLogged =>
    /\ last.raised = "none"
    /\ Spans(HistoOf, last.args.bins,
             2 * SeqMin(last.args.values), 2 * SeqMax(last.args.values))

\* C7 amended: for a non-empty sample set whose samples are not all equal
\* the histogram has bins counts and the bins upper edges of equal-width
\* buckets spanning [min, max], the last upper edge being max; when all
\* samples equal m the buckets span [m - 0.5, m + 0.5] and the last upper
\* edge is m + 0.5.
C7_Amended ==
  HistogramLogged =>
    LET mn == SeqMin(last.args.values)
        mx == SeqMax(last.args.values)
    IN /\ last.raised = "none"
       /\ mn # mx => Spans(HistoOf, last.args.bins, 2 * mn, 2 * mx)
       /\ mn # mx => HistoOf.bucket_limit[last.args.bins][1]
                       = mx * HistoOf.bucket_limit[last.args.bins][2]
       /\ mn = mx => Spans(HistoOf, last.args.bins, 2 * mn - 1, 2 * mn + 1)

C7_Witness ==
  /\ ReturnedFrom("log_histogram")
  /\ last.args.values = <<1, 1>>
  /\ last.args.bins = 2
  /\ HistoOf.bucket_limit = << <<4, 4>>, <<6, 4>> >>
  /\ HistoOf.bucket = <<0, 2>>

C9_FailureLeavesSink ==
  /\ last.raised # "none" => writer = Before
  /\ (last.op = "log_histogram" /\ last.args.values = << >>) => last.raised # "none"
  /\ (last.op = "log_images"
        /\ \E i \in 1..Len(last.args.images) : ~WellFormed(last.args.images[i])) =>
       last.raised # "none"

C9_Witness ==
  /\ last.op = "log_images"
  /\ Len(last.args.images) = 2
  /\ WellFormed(last.args.images[1])
  /\ ~WellFormed(last.args.images[2])
  /\ last.raised # "none"
  /\ Len(Events) = 1
  /\ writer.flushed = 0

\* The last call made on a Logger that has logged nothing yet.
OnFresh ==
  CASE last.op = "log_scalar" ->
         log_scalar(Logger_init, last.args.tag, last.args.value, last.args.step)
    [] last.op = "log_images" ->
         log_images(Logger_init, last.args.tag, last.args.images, last.args.step)
    [] last.op = "log_histogram" ->
         log_histogram(Logger_init, last.args.tag, last.args.values,
                       last.args.step, last.args.bins)
    [] last.op = "add_summary" ->
         add_summary(Logger_init, last.args.summary, last.args.step)
    [] OTHER -> flush(Logger_init)

\* C10: whatever was logged before, with whatever steps and tags, a call
\* raises exactly when it raises on a fresh Logger, log_scalar never raises,
\* and a call that returns appends the event it appends on a fresh Logger,
\* with the caller's step and, for log_scalar and log_histogram, the caller's tag.
C10_NoCrossCallState ==
  /\ last.raised = OnFresh.raised
  /\ last.op = "log_scalar" => last.raised = "none"
  /\ (last.op \in {"log_scalar", "log_images", "log_histogram", "add_summary"}
        /\ last.raised = "none") =>
       /\ AppendedOne
       /\ LastEvent = OnFresh.writer.events[1]
       /\ LastEvent.step = last.args.step
  /\ (ReturnedFrom("log_scalar") \/ ReturnedFrom("log_histogram")) =>
       /\ Len(LastEvent.summary) = 1
       /\ LastEvent.summary[1].tag = last.args.tag

C10_Witness ==
  /\ ReturnedFrom("log_scalar")
  /\ Len(Events) = 2
  /\ Len(Events[1].summary) = 1
  /\ Events[1].summary[1].tag = last.args.tag
  /\ Events[1].step > last.args.step
  /\ Events[2].step = last.args.step

====
